---------------------------- MODULE Spec2Model ----------------------------
(***************************************************************************)
(* NatCat Event Monitor: the exposure-matching core (src/src/services.py)  *)
(* and the loop of main() that drives it (src/src/app.py).                 *)
(*                                                                         *)
(* Numbers.  Python floats are modelled in fixed point.  Angles and the    *)
(* values of sin, cos, sqrt and atan2 are integers counting 1/Scale        *)
(* (radians, or units); a distance or a radius is an integer number of     *)
(* metres (1/UnitsPerKm km), so that two decimal places of a kilometre are *)
(* a multiple of 10.  Every arithmetic step rounds to the nearest          *)
(* representable value, ties to even, as IEEE-754 arithmetic does on its   *)
(* own grid.  Latitudes and longitudes are whole degrees.                  *)
(***************************************************************************)
EXTENDS Integers, Sequences, FiniteSets

\* ------------------------------------------------------------------------
\* Fixed-point arithmetic standing for the float operations of services.py
\* ------------------------------------------------------------------------

Scale == 10000

UnitsPerKm == 1000

\* math.pi, in 1/Scale
PiScaled == 31416

\* R = 6371.0, the Earth's radius in kilometres
R == 6371

Abs(x) == IF x < 0 THEN -x ELSE x

\* n / d (d > 0) rounded to the nearest integer, ties to even, symmetric in
\* the sign of n: the rounding of one float operation.
RoundDiv(n, d) ==
    LET m  == Abs(n)
        q  == m \div d
        r  == m % d
        up == (2 * r > d) \/ (2 * r = d /\ q % 2 = 1)
        v  == IF up THEN q + 1 ELSE q
    IN  IF n < 0 THEN -v ELSE v

\* x * y of two fixed-point values
Mul(x, y) == RoundDiv(x * y, Scale)

\* math.radians(deg): deg * pi / 180
Radians(deg) == RoundDiv(deg * PiScaled, 180)

\* halving an angle: delta / 2
Half(x) == RoundDiv(x, 2)

\* The tail of the Taylor series of sin or cos from the term `term` of
\* order k - 2 on: the next term is -term * x^2 / ((k - 1) * k).
RECURSIVE TaylorSum(_, _, _)
TaylorSum(term, x2, k) ==
    IF term = 0 THEN 0
    ELSE term + TaylorSum(RoundDiv(-(term * x2), Scale * (k - 1) * k), x2, k + 2)

\* math.sin(x), x in 1/Scale radians, |x| <= 2.4
Sin(x) == TaylorSum(x, Mul(x, x), 3)

\* math.cos(x), x in 1/Scale radians, |x| <= 2.4
Cos(x) == TaylorSum(Scale, Mul(x, x), 2)

\* the largest r with r * r <= n, by bisection on lo <= r < hi
RECURSIVE ISqrt(_, _, _)
ISqrt(n, lo, hi) ==
    IF hi - lo <= 1 THEN lo
    ELSE LET mid == (lo + hi) \div 2
         IN  IF mid * mid <= n THEN ISqrt(n, mid, hi) ELSE ISqrt(n, lo, mid)

\* math.sqrt(v) of a fixed-point v in [0, 4]: the nearest to sqrt(v * Scale)
Sqrt(v) ==
    LET n == v * Scale
        r == ISqrt(n, 0, 2 * Scale + 1)
    IN  IF n - r * r > r THEN r + 1 ELSE r

\* u - u^3/3 + u^5/5 - ... from the power `pow` = u^k on
RECURSIVE AtanSeries(_, _, _, _)
AtanSeries(pow, u2, k, sign) ==
    IF pow = 0 THEN 0
    ELSE sign * RoundDiv(pow, k) + AtanSeries(Mul(pow, u2), u2, k + 2, -sign)

\* atan(t) for 0 <= t <= 1, through atan(t) = 2 atan(t / (1 + sqrt(1 + t^2)))
Atan(t) ==
    LET u == RoundDiv(t * Scale, Scale + Sqrt(Scale + Mul(t, t)))
    IN  2 * AtanSeries(u, Mul(u, u), 1, 1)

\* math.atan2(y, x) for y >= 0 and x >= 0, not both 0
Atan2(y, x) ==
    IF y = 0 THEN 0
    ELSE IF y <= x THEN Atan(RoundDiv(y * Scale, x))
    ELSE RoundDiv(PiScaled, 2) - Atan(RoundDiv(x * Scale, y))

\* the value a of services.py line 29-30
HaversineA(lat1, lon1, lat2, lon2) ==
    LET lat1_rad  == Radians(lat1)
        lat2_rad  == Radians(lat2)
        delta_lat == Radians(lat2 - lat1)
        delta_lon == Radians(lon2 - lon1)
        sin_dlat  == Sin(Half(delta_lat))
        sin_dlon  == Sin(Half(delta_lon))
    IN  Mul(sin_dlat, sin_dlat)
          + Mul(Mul(Cos(lat1_rad), Cos(lat2_rad)), Mul(sin_dlon, sin_dlon))

\* A variant by the spherical law of cosines, c = acos(sin sin + cos cos cos),
\* with acos(v) taken as atan2(sqrt(1 - v^2), v): it leaves a residue where
\* sin^2 + cos^2 does not round to 1.
calculate_distance_km_LawOfCosines(lat1, lon1, lat2, lon2) ==
    LET lat1_rad  == Radians(lat1)
        lat2_rad  == Radians(lat2)
        delta_lon == Radians(lon2 - lon1)
        v == Mul(Sin(lat1_rad), Sin(lat2_rad))
               + Mul(Mul(Cos(lat1_rad), Cos(lat2_rad)), Cos(delta_lon))
        w == IF Abs(v) > Scale THEN 0 ELSE Sqrt(Scale - Mul(v, v))
        c == IF v >= 0 THEN Atan2(w, v) ELSE PiScaled - Atan2(w, -v)
    IN  RoundDiv(R * c, Scale \div UnitsPerKm)

\* calculate_distance_km: the great-circle distance, in metres
calculate_distance_km(lat1, lon1, lat2, lon2) ==
    LET a == HaversineA(lat1, lon1, lat2, lon2)
        c == 2 * Atan2(Sqrt(a), Sqrt(Scale - a))
    IN  RoundDiv(R * c, Scale \div UnitsPerKm)

\* round(distance, 2): to two decimal places of a kilometre, ties to even
Round2(distance) ==
    RoundDiv(distance, UnitsPerKm \div 100) * (UnitsPerKm \div 100)

\* ------------------------------------------------------------------------
\* The data model (src/src/models.py) and the inputs drawn from it
\* ------------------------------------------------------------------------

MaxEvents == 2

MaxZones == 2

MaxAlerts == 3

\* Earthquake: the fields the core reads (magnitude, place, time and
\* depth_km are only displayed)
Earthquake(id, latitude, longitude) ==
    [id |-> id, latitude |-> latitude, longitude |-> longitude]

\* Treaty: the fields the core reads (peril is never read)
Treaty(id, name, region, latitude, longitude, radius_km, limit_usd) ==
    [id |-> id, name |-> name, region |-> region, latitude |-> latitude,
     longitude |-> longitude, radius_km |-> radius_km, limit_usd |-> limit_usd]

\* ExposureAlert
ExposureAlert(earthquake, treaty, distance_km) ==
    [earthquake |-> earthquake, treaty |-> treaty, distance_km |-> distance_km]

\* The events a feed may deliver: eq1 at the centre of T001, eq2 two degrees
\* from the centres of T001 and T002, eq3 three degrees from that of T003.
Events ==
    { Earthquake("eq1", 36, -119),
      Earthquake("eq2", 34, -119),
      Earthquake("eq3", 38, 139) }

TreatyIds == {"T001", "T002", "T003"}

\* A radius exactly equal to the distance of eq2 from T001 and T002
BoundaryRadius == calculate_distance_km(34, -119, 36, -119)

\* The radii a zone may have, in metres: the boundary radius, that radius
\* as a two-decimal kilometre figure, and the 500 km of the tests.
Radii == {BoundaryRadius, Round2(BoundaryRadius), 500 * UnitsPerKm}

\* The zone with identifier id and the radius given: identifiers are unique,
\* two zones share a name, two share a region.
TreatyOf(id, radius_km) ==
    CASE id = "T001" ->
           Treaty(id, "Quake XL", "US-CA", 36, -119, radius_km, 50000000)
      [] id = "T002" ->
           Treaty(id, "Quake QS", "US-CA", 32, -119, radius_km, 20000000)
      [] id = "T003" ->
           Treaty(id, "Quake XL", "JP", 35, 139, radius_km, 75000000)

\* the sequences over S of length at most n
SeqsUpTo(S, n) == UNION {[1..k -> S] : k \in 0..n}

\* the sequences of SeqsUpTo(S, n) without a repeated element
InjSeqsUpTo(S, n) ==
    {s \in SeqsUpTo(S, n) : \A i, j \in DOMAIN s : s[i] = s[j] => i = j}

\* ------------------------------------------------------------------------
\* find_exposed_treaties (src/src/services.py)
\* ------------------------------------------------------------------------

\* A variant whose test is distance < radius_km
RECURSIVE ExposedFromStrict(_, _, _)
ExposedFromStrict(earthquake, treaties, i) ==
    IF i > Len(treaties) THEN <<>>
    ELSE LET treaty   == treaties[i]
             distance == calculate_distance_km(
                             earthquake.latitude, earthquake.longitude,
                             treaty.latitude, treaty.longitude)
             rest     == ExposedFromStrict(earthquake, treaties, i + 1)
         IN  IF distance < treaty.radius_km
             THEN <<ExposureAlert(earthquake, treaty, Round2(distance))>> \o rest
             ELSE rest

\* A variant that rounds before the test: round(distance, 2) <= radius_km
RECURSIVE ExposedFromRounded(_, _, _)
ExposedFromRounded(earthquake, treaties, i) ==
    IF i > Len(treaties) THEN <<>>
    ELSE LET treaty   == treaties[i]
             distance == Round2(calculate_distance_km(
                             earthquake.latitude, earthquake.longitude,
                             treaty.latitude, treaty.longitude))
             rest     == ExposedFromRounded(earthquake, treaties, i + 1)
         IN  IF distance <= treaty.radius_km
             THEN <<ExposureAlert(earthquake, treaty, distance)>> \o rest
             ELSE rest

\* The loop of lines 54-66 over treaties[i..]: the alerts in zone order.
RECURSIVE ExposedFrom(_, _, _)
ExposedFrom(earthquake, treaties, i) ==
    IF i > Len(treaties) THEN <<>>
    ELSE LET treaty   == treaties[i]
             distance == calculate_distance_km(
                             earthquake.latitude, earthquake.longitude,
                             treaty.latitude, treaty.longitude)
             rest     == ExposedFrom(earthquake, treaties, i + 1)
         IN  IF distance <= treaty.radius_km
             THEN <<ExposureAlert(earthquake, treaty, Round2(distance))>> \o rest
             ELSE rest

\* A variant that puts a before the elements of equal key: an unstable sort
RECURSIVE InsertBeforeEqual(_, _)
InsertBeforeEqual(s, a) ==
    IF s = <<>> THEN <<a>>
    ELSE IF s[Len(s)].distance_km < a.distance_km THEN Append(s, a)
    ELSE Append(InsertBeforeEqual(SubSeq(s, 1, Len(s) - 1), a), s[Len(s)])

\* alert a into the sorted sequence s, after every element whose key is not
\* greater: the place a stable sort gives an element that came later.
RECURSIVE InsertByDistance(_, _)
InsertByDistance(s, a) ==
    IF s = <<>> THEN <<a>>
    ELSE IF s[Len(s)].distance_km <= a.distance_km THEN Append(s, a)
    ELSE Append(InsertByDistance(SubSeq(s, 1, Len(s) - 1), a), s[Len(s)])

\* alerts.sort(key=lambda a: a.distance_km): list.sort is stable
RECURSIVE SortByDistance(_)
SortByDistance(alerts) ==
    IF alerts = <<>> THEN <<>>
    ELSE InsertByDistance(SortByDistance(SubSeq(alerts, 1, Len(alerts) - 1)),
                          alerts[Len(alerts)])

find_exposed_treaties(earthquake, treaties) ==
    SortByDistance(ExposedFrom(earthquake, treaties, 1))

\* ------------------------------------------------------------------------
\* summarize_exposure (src/src/services.py)
\* ------------------------------------------------------------------------

\* the state of the loop of lines 94-108
SummaryAcc(seen_treaties, total_exposure, by_region, treaty_names) ==
    [seen_treaties |-> seen_treaties, total_exposure |-> total_exposure,
     by_region |-> by_region, treaty_names |-> treaty_names]

\* A variant that assigns: by_region[region] = limit_usd
AddRegionAssign(by_region, region, limit_usd) ==
    [r \in DOMAIN by_region \cup {region} |->
        IF r = region THEN limit_usd ELSE by_region[r]]

\* by_region[region] += limit_usd, the key created at 0 when absent
AddRegion(by_region, region, limit_usd) ==
    [r \in DOMAIN by_region \cup {region} |->
        IF r = region
        THEN (IF r \in DOMAIN by_region THEN by_region[r] ELSE 0) + limit_usd
        ELSE by_region[r]]

\* A variant without the membership test: every alert adds its limit
SummaryStepNoDedup(acc, alert) ==
    LET treaty == alert.treaty
    IN  SummaryAcc(acc.seen_treaties \cup {treaty.id},
                   acc.total_exposure + treaty.limit_usd,
                   AddRegion(acc.by_region, treaty.region, treaty.limit_usd),
                   Append(acc.treaty_names, treaty.name))

\* A variant that deduplicates the names by name, not by identifier
SummaryStepDedupName(acc, alert) ==
    LET treaty == alert.treaty
    IN  IF treaty.id \notin acc.seen_treaties
        THEN SummaryAcc(acc.seen_treaties \cup {treaty.id},
                        acc.total_exposure + treaty.limit_usd,
                        AddRegion(acc.by_region, treaty.region, treaty.limit_usd),
                        IF \E k \in DOMAIN acc.treaty_names :
                               acc.treaty_names[k] = treaty.name
                        THEN acc.treaty_names
                        ELSE Append(acc.treaty_names, treaty.name))
        ELSE acc

\* A variant that reassigns the set, seen_treaties = {treaty.id}: only the
\* identifier of the previous alert is remembered
SummaryStepReassign(acc, alert) ==
    LET treaty == alert.treaty
    IN  IF treaty.id \notin acc.seen_treaties
        THEN SummaryAcc({treaty.id},
                        acc.total_exposure + treaty.limit_usd,
                        AddRegion(acc.by_region, treaty.region, treaty.limit_usd),
                        Append(acc.treaty_names, treaty.name))
        ELSE acc

\* A variant whose by_region update has left the if: every alert adds its
\* limit to its region, while the total and the names stay deduplicated
SummaryStepRegionPerAlert(acc, alert) ==
    LET treaty == alert.treaty
        region == AddRegion(acc.by_region, treaty.region, treaty.limit_usd)
    IN  IF treaty.id \notin acc.seen_treaties
        THEN SummaryAcc(acc.seen_treaties \cup {treaty.id},
                        acc.total_exposure + treaty.limit_usd,
                        region,
                        Append(acc.treaty_names, treaty.name))
        ELSE SummaryAcc(acc.seen_treaties, acc.total_exposure, region,
                        acc.treaty_names)

\* one iteration of the loop of lines 99-108
SummaryStep(acc, alert) ==
    LET treaty == alert.treaty
    IN  IF treaty.id \notin acc.seen_treaties
        THEN SummaryAcc(acc.seen_treaties \cup {treaty.id},
                        acc.total_exposure + treaty.limit_usd,
                        AddRegion(acc.by_region, treaty.region, treaty.limit_usd),
                        Append(acc.treaty_names, treaty.name))
        ELSE acc

\* the loop over alerts[1..n]
RECURSIVE SummaryLoop(_, _)
SummaryLoop(alerts, n) ==
    IF n = 0 THEN SummaryAcc({}, 0, <<>>, <<>>)
    ELSE SummaryStep(SummaryLoop(alerts, n - 1), alerts[n])

\* the dictionary summarize_exposure returns
Summary(total_alerts, total_exposure_usd, affected_treaties, by_region) ==
    [total_alerts |-> total_alerts, total_exposure_usd |-> total_exposure_usd,
     affected_treaties |-> affected_treaties, by_region |-> by_region]

\* A variant that counts the distinct zones as total_alerts
summarize_exposure_CountDistinct(alerts) ==
    IF alerts = <<>> THEN Summary(0, 0, <<>>, <<>>)
    ELSE LET acc == SummaryLoop(alerts, Len(alerts))
         IN  Summary(Len(acc.treaty_names), acc.total_exposure,
                     acc.treaty_names, acc.by_region)

\* A variant without the base case that reads alerts[0] before its loop:
\* on an empty list Python raises IndexError, modelled as a value
summarize_exposure_NoBaseCase(alerts) ==
    IF alerts = <<>> THEN [raised |-> "IndexError"]
    ELSE LET acc == SummaryLoop(alerts, Len(alerts))
         IN  Summary(Len(alerts), acc.total_exposure, acc.treaty_names,
                     acc.by_region)

summarize_exposure(alerts) ==
    IF alerts = <<>> THEN Summary(0, 0, <<>>, <<>>)
    ELSE LET acc == SummaryLoop(alerts, Len(alerts))
         IN  Summary(Len(alerts), acc.total_exposure, acc.treaty_names,
                     acc.by_region)

\* ------------------------------------------------------------------------
\* The program: main() of src/src/app.py, and a direct call of
\* summarize_exposure on an alert list built by hand (src/tests)
\* ------------------------------------------------------------------------

VARIABLES
    pc,           \* "main": in the loop of main(); "call": before a direct
                  \* call of summarize_exposure; "done"
    earthquakes,  \* the events fetched
    treaties,     \* the zones loaded
    idx,          \* the number of events the loop has matched
    alerts,       \* the result of the latest find_exposed_treaties call
    all_alerts,   \* the alerts concatenated so far
    summary       \* the result of summarize_exposure, once called

vars == <<pc, earthquakes, treaties, idx, alerts, all_alerts, summary>>

\* no summary computed yet
NoSummary == [none |-> TRUE]

\* main() after load_data: any events, any zones of unique identifier
InitMain ==
    /\ pc = "main"
    /\ earthquakes \in InjSeqsUpTo(Events, MaxEvents)
    /\ \E radius \in [TreatyIds -> Radii] :
          treaties \in {[i \in DOMAIN ids |-> TreatyOf(ids[i], radius[ids[i]])] :
                           ids \in SeqsUpTo(TreatyIds, MaxZones)}
    /\ idx = 0
    /\ alerts = <<>>
    /\ all_alerts = <<>>
    /\ summary = NoSummary

\* a test about to summarize alerts it built itself: any pairing of events
\* and zones, in any order, with any repeats
InitCall ==
    /\ pc = "call"
    /\ earthquakes = <<>>
    /\ treaties = <<>>
    /\ idx = 0
    /\ alerts = <<>>
    /\ all_alerts \in SeqsUpTo(
          {ExposureAlert(e, TreatyOf(id, 500 * UnitsPerKm), 0) :
               e \in Events, id \in TreatyIds}, MaxAlerts)
    /\ summary = NoSummary

Init == InitMain \/ InitCall

\* one iteration of the loop of main(): match the next event, extend
MatchEvent ==
    /\ pc = "main"
    /\ idx < Len(earthquakes)
    /\ alerts' = find_exposed_treaties(earthquakes[idx + 1], treaties)
    /\ all_alerts' = all_alerts \o alerts'
    /\ idx' = idx + 1
    /\ UNCHANGED <<pc, earthquakes, treaties, summary>>

\* the loop is over: render_summary_panel summarizes all the alerts
RenderSummaryPanel ==
    /\ pc = "main"
    /\ idx = Len(earthquakes)
    /\ summary' = summarize_exposure(all_alerts)
    /\ pc' = "done"
    /\ UNCHANGED <<earthquakes, treaties, idx, alerts, all_alerts>>

\* a direct call of summarize_exposure
CallSummarize ==
    /\ pc = "call"
    /\ summary' = summarize_exposure(all_alerts)
    /\ pc' = "done"
    /\ UNCHANGED <<earthquakes, treaties, idx, alerts, all_alerts>>

Next == MatchEvent \/ RenderSummaryPanel \/ CallSummarize

Spec == Init /\ [][Next]_vars

\* ------------------------------------------------------------------------
\* Properties
\* ------------------------------------------------------------------------

Range(s) == {s[k] : k \in DOMAIN s}

\* the raw distance of event e from the centre of zone z
Dist(e, z) ==
    calculate_distance_km(e.latitude, e.longitude, z.latitude, z.longitude)

\* the number of positions of s that hold v
Count(s, v) == Cardinality({k \in DOMAIN s : s[k] = v})

\* the event of the latest find_exposed_treaties call (idx > 0)
Matched == earthquakes[idx]

\* C1: the alerts of a find_exposed_treaties call all pair the event of the
\* call with a zone of the input, and a zone has as many alerts as it has
\* entries in the input when its distance is <= its radius_km (equality
\* included), and none when its distance is greater.
C1_AlertIffWithinRadius ==
    idx > 0 =>
        /\ \A k \in DOMAIN alerts :
              /\ alerts[k].earthquake = Matched
              /\ alerts[k].treaty \in Range(treaties)
        /\ \A z \in Range(treaties) :
              Count([k \in DOMAIN alerts |-> alerts[k].treaty], z)
                 = IF Dist(Matched, z) <= z.radius_km
                   THEN Count(treaties, z) ELSE 0

\* a call with one zone exactly on its boundary, alerted, and one zone
\* beyond its radius, not alerted
C1_Witness ==
    /\ idx > 0
    /\ \E k \in DOMAIN alerts :
          Dist(Matched, alerts[k].treaty) = alerts[k].treaty.radius_km
    /\ \E z \in Range(treaties) :
          /\ Dist(Matched, z) > z.radius_km
          /\ \A k \in DOMAIN alerts : alerts[k].treaty # z

\* the zones of the input, in input order, whose alert for event e carries
\* the distance d
ZonesAt(e, d) ==
    SelectSeq(treaties,
              LAMBDA z : Dist(e, z) <= z.radius_km /\ Round2(Dist(e, z)) = d)

\* C2: the alerts of a call are in ascending order of distance_km, and the
\* alerts of one distance_km are in the order of their zones in the input.
C2_SortedStable ==
    idx > 0 =>
        /\ \A k, l \in DOMAIN alerts :
              k < l => alerts[k].distance_km <= alerts[l].distance_km
        /\ \A d \in {alerts[k].distance_km : k \in DOMAIN alerts} :
              LET tied == SelectSeq(alerts, LAMBDA a : a.distance_km = d)
              IN  [k \in DOMAIN tied |-> tied[k].treaty] = ZonesAt(Matched, d)

\* a call whose alerts hold two different zones at one distance_km
C2_Witness ==
    /\ idx > 0
    /\ \E k \in DOMAIN alerts :
          /\ k + 1 \in DOMAIN alerts
          /\ alerts[k].distance_km = alerts[k + 1].distance_km
          /\ alerts[k].treaty.id # alerts[k + 1].treaty.id

\* the identifiers of the zones the alerts reference
IdsIn(s) == {s[k].treaty.id : k \in DOMAIN s}

\* the zone of identifier id among the alerts
ZoneOfId(s, id) == (CHOOSE a \in Range(s) : a.treaty.id = id).treaty

\* the summed limit_usd of the zones of the alerts s with identifier in ids
RECURSIVE LimitSum(_, _)
LimitSum(s, ids) ==
    IF ids = {} THEN 0
    ELSE LET id == CHOOSE v \in ids : TRUE
         IN  ZoneOfId(s, id).limit_usd + LimitSum(s, ids \ {id})

\* some zone is referenced by alerts of two different events
RepeatedZone(s) ==
    \E k, l \in DOMAIN s :
        /\ s[k].treaty.id = s[l].treaty.id
        /\ s[k].earthquake.id # s[l].earthquake.id

\* C3: total_exposure_usd is the sum of limit_usd over the distinct zone
\* identifiers among the alerts, each zone once.
C3_TotalExposureDistinct ==
    pc = "done" =>
        summary.total_exposure_usd = LimitSum(all_alerts, IdsIn(all_alerts))

\* a summary of alerts of two zones, one of them alerted by two events
C3_Witness ==
    /\ pc = "done"
    /\ RepeatedZone(all_alerts)
    /\ Cardinality(IdsIn(all_alerts)) >= 2

\* C4: total_alerts is the length of the alert sequence.
C4_TotalAlertsIsLength ==
    pc = "done" => summary.total_alerts = Len(all_alerts)

\* a summary of more alerts than zones
C4_Witness ==
    /\ pc = "done"
    /\ RepeatedZone(all_alerts)
    /\ summary.total_alerts > Cardinality(IdsIn(all_alerts))

\* the position of the first alert that references the zone of identifier id
FirstIndex(s, id) ==
    CHOOSE k \in DOMAIN s :
        /\ s[k].treaty.id = id
        /\ \A l \in DOMAIN s : s[l].treaty.id = id => k <= l

C6_ByRegionDistinct ==
    pc = "done" =>
        /\ DOMAIN summary.by_region =
              {all_alerts[k].treaty.region : k \in DOMAIN all_alerts}
        /\ \A r \in DOMAIN summary.by_region :
              summary.by_region[r] =
                  LimitSum(all_alerts,
                           {id \in IdsIn(all_alerts) :
                               ZoneOfId(all_alerts, id).region = r})

\* a summary where two zones of one region are alerted, one of them twice,
\* and another region is not alerted
C6_Witness ==
    /\ pc = "done"
    /\ RepeatedZone(all_alerts)
    /\ \E i, j \in IdsIn(all_alerts) :
          /\ i # j
          /\ ZoneOfId(all_alerts, i).region = ZoneOfId(all_alerts, j).region
    /\ "JP" \notin DOMAIN summary.by_region

\* C7: with no zones find_exposed_treaties returns no alerts, and with no
\* alerts summarize_exposure returns the zero summary; neither raises.
C7_EmptyInEmptyOut ==
    /\ (idx > 0 /\ treaties = <<>>) => alerts = <<>>
    /\ (pc = "done" /\ all_alerts = <<>>) => summary = Summary(0, 0, <<>>, <<>>)

\* events matched against no zones, and the empty result summarized
C7_Witness ==
    /\ pc = "done"
    /\ idx > 0
    /\ treaties = <<>>
    /\ all_alerts = <<>>

\* latitudes and longitudes across the valid ranges, in degrees
Latitudes == {-90, -67, -45, -23, -1, 0, 1, 23, 45, 67, 90}

Longitudes == {-180, -135, -91, -45, -1, 0, 1, 45, 91, 135, 180}

\* the distance of each of these points from itself
SelfDistance ==
    [lat \in Latitudes, lon \in Longitudes |->
        calculate_distance_km(lat, lon, lat, lon)]

\* C8: the distance of a point from itself is exactly 0, for points across
\* the valid ranges, for the location of every event and for the centre of
\* every zone, and an alert whose event lies at the centre of its zone
\* carries distance_km 0.
C8_SamePointZero ==
    /\ \A lat \in Latitudes, lon \in Longitudes : SelfDistance[lat, lon] = 0
    /\ \A e \in Range(earthquakes) : Dist(e, e) = 0
    /\ \A z \in Range(treaties) : Dist(z, z) = 0
    /\ \A k \in DOMAIN alerts :
          (/\ alerts[k].earthquake.latitude = alerts[k].treaty.latitude
           /\ alerts[k].earthquake.longitude = alerts[k].treaty.longitude)
             => alerts[k].distance_km = 0

\* a call that alerted a zone whose centre is the event's epicentre
C8_Witness ==
    /\ idx > 0
    /\ \E k \in DOMAIN alerts :
          /\ alerts[k].earthquake.latitude = alerts[k].treaty.latitude
          /\ alerts[k].earthquake.longitude = alerts[k].treaty.longitude
          /\ alerts[k].distance_km = 0

\* C9: every alert stores the distance rounded to two decimals of a zone
\* whose unrounded distance is within its radius, and a zone whose unrounded
\* distance exceeds its radius has no alert even when the rounded distance
\* would not exceed it.
C9_RawComparisonRoundedStore ==
    idx > 0 =>
        /\ \A k \in DOMAIN alerts :
              /\ alerts[k].distance_km = Round2(Dist(Matched, alerts[k].treaty))
              /\ Dist(Matched, alerts[k].treaty) <= alerts[k].treaty.radius_km
        /\ \A z \in Range(treaties) :
              (Round2(Dist(Matched, z)) <= z.radius_km /\ z.radius_km < Dist(Matched, z))
                 => \A k \in DOMAIN alerts : alerts[k].treaty # z

\* a call with a zone left out though its rounded distance is within its
\* radius, and an alert whose stored distance differs from the unrounded one
C9_Witness ==
    /\ idx > 0
    /\ \E z \in Range(treaties) :
          /\ Round2(Dist(Matched, z)) <= z.radius_km
          /\ z.radius_km < Dist(Matched, z)
          /\ \A k \in DOMAIN alerts : alerts[k].treaty # z
    /\ \E k \in DOMAIN alerts :
          alerts[k].distance_km # Dist(Matched, alerts[k].treaty)

\* the orders in which n per-event results can be concatenated
Orders(n) == {f \in [1..n -> 1..n] : \A i, j \in 1..n : f[i] = f[j] => i = j}

\* the per-event alert lists of the first n events of order f, concatenated
RECURSIVE ConcatInOrder(_, _)
ConcatInOrder(f, n) ==
    IF n = 0 THEN <<>>
    ELSE ConcatInOrder(f, n - 1)
           \o find_exposed_treaties(earthquakes[f[n]], treaties)

\* zone identifiers are unique in the zone collection
UniqueZoneIds ==
    \A i, j \in DOMAIN treaties :
        treaties[i].id = treaties[j].id => treaties[i] = treaties[j]

\* C10: once main() has summarized, the summary of the per-event alert
\* lists concatenated in any other order has the same total_alerts,
\* total_exposure_usd and by_region.
C10_OrderIndependent ==
    (pc = "done" /\ idx = Len(earthquakes) /\ idx > 0 /\ UniqueZoneIds) =>
        \A f \in Orders(Len(earthquakes)) :
            LET other == summarize_exposure(ConcatInOrder(f, Len(earthquakes)))
            IN  /\ other.total_alerts = summary.total_alerts
                /\ other.total_exposure_usd = summary.total_exposure_usd
                /\ other.by_region = summary.by_region

\* a summary over two events that share a zone, where another order of
\* concatenation gives another order of names
C10_Witness ==
    /\ pc = "done"
    /\ idx = Len(earthquakes)
    /\ idx >= 2
    /\ RepeatedZone(all_alerts)
    /\ \E f \in Orders(Len(earthquakes)) :
          summarize_exposure(ConcatInOrder(f, Len(earthquakes))).affected_treaties
             # summary.affected_treaties

\* the sum of the values of the mapping m over the keys in keys
RECURSIVE ValueSum(_, _)
ValueSum(m, keys) ==
    IF keys = {} THEN 0
    ELSE LET k == CHOOSE v \in keys : TRUE
         IN  m[k] + ValueSum(m, keys \ {k})

=============================================================================
